---- MODULE Spec2Model ----
(***************************************************************************)
(* go-garminconnect: the streaming FIT encoder (internal/fit/encoder.go)   *)
(* and the session-holding API client (internal/api, Client with           *)
(* refreshTokenIfNeeded), modelled as two state machines over one set of   *)
(* variables.  SpecFit drives the encoder, SpecClient drives the client.   *)
(***************************************************************************)
EXTENDS Integers, Sequences, FiniteSets, TLC

VARIABLES
    \* ---- FitEncoder and its io.WriteSeeker ----
    w,            \* the sink: [buf : Seq(byte), pos : offset of the next write]
    crc,          \* FitEncoder.crc (uint16)
    dataSize,     \* FitEncoder.dataSize
    headerSize,   \* FitEncoder.headerSize
    startPos,     \* FitEncoder.startPos
    fitLastOp,    \* last encoder call: "New", "Write" or "Close"
    fitLastErr,   \* TRUE iff the last encoder call returned a non-nil error
    closeCalls,   \* number of Close calls made so far
    priorCloses,  \* closeCalls as it was when the last call started
    lateCalls,    \* number of calls made after the first Close
    \* ---- api.Client ----
    session,      \* the garth.Session object c.session points to
    sessionHeld,  \* c.session != nil
    sessionPath,  \* c.sessionPath
    authHeader,   \* bearer token in HTTPClient's Authorization header
    stored,       \* content of the session file
    now,          \* time.Now(), in hours
    lastOp,       \* last client call: "New", "Get" or "Post"
    lastErr,      \* kind of error the last client call returned
    lastResp,     \* HTTP outcome of the last client call
    events,       \* what the last client call did, in order
    lastBearer,   \* bearer token carried by the last HTTP request
    preHeld,      \* sessionHeld when the last client call started
    preExpired,   \* held Session expired when the last client call started
    reqFull,      \* the Session was held and fully populated when the last
                  \* HTTP request was sent
    \* ---- GarthAuthenticator.Login ----
    g,            \* the authenticator: [SessionPath, MFAPrompter]
    pcLogin,      \* where Login stands: the step it runs next, "done", "panic"
    steps,        \* the steps Login has attempted, in order
    signinBody,   \* what authenticate read from the sign-in response
    mfaCode,      \* the code the MFAPrompter returned
    mfaOutcome,   \* the provider's answer to the MFA submission
    saveOut,      \* outcome of Login's Session.Save
    loginErr,     \* the error Login returned ("none": nil)
    loginSession, \* the Session Login assembled
    loginHeld,    \* Login returned a non-nil *Session
    cancelled,    \* the caller has signalled cancellation
    cancelledInPrompt, \* ... while Login was waiting in GetMFACode
    \* ---- two goroutines sharing one api.Client ----
    cl,           \* per goroutine: [pc, tok, exp, data], the position in Get
                  \* and the locals of refreshTokenIfNeeded and Save
    \* ---- Session.Save and LoadSession on the file system ----
    disk,         \* the file at each path
    memS,         \* the Session s in memory, ExpiresAt as a time.Time
    ret,          \* the last call: [op, path, err, held, session]
    \* ---- the two CRC-16 functions on one input ----
    cc,           \* [pc, c, b, out, ref]: CRC state c and byte b, the state
                  \* updateCRC leaves and the value calcCRC returns
    \* ---- the buffered FitEncoder (NewFitEncoder() with Encode()) ----
    enc,          \* the encoder: [buf, headerSize, activityDefined]
    encLog,       \* the calls made on it, in order: [op, arg, out]
    \* ---- auth.AuthClient ----
    ac            \* the last call: its inputs, the requests it sent, the
                  \* Token passed in as it is afterwards, and what it returned

fitVars == <<w, crc, dataSize, headerSize, startPos, fitLastOp, fitLastErr,
             closeCalls, priorCloses, lateCalls>>

clientVars == <<session, sessionHeld, sessionPath, authHeader, stored, now,
                lastOp, lastErr, lastResp, events, lastBearer, preHeld,
                preExpired, reqFull>>

loginVars == <<g, pcLogin, steps, signinBody, mfaCode, mfaOutcome, saveOut,
               loginErr, loginSession, loginHeld, cancelled, cancelledInPrompt>>

\* the client without the session file and the clock, which Login shares
clientRest == <<session, sessionHeld, sessionPath, authHeader, lastOp, lastErr,
                lastResp, events, lastBearer, preHeld, preExpired, reqFull>>

storeVars == <<disk, memS, ret>>
auxVars == <<cc, enc, encLog, ac>>

vars == <<w, crc, dataSize, headerSize, startPos, fitLastOp, fitLastErr,
          closeCalls, priorCloses, lateCalls,
          session, sessionHeld, sessionPath, authHeader, stored, now,
          lastOp, lastErr, lastResp, events, lastBearer, preHeld,
          preExpired, reqFull,
          g, pcLogin, steps, signinBody, mfaCode, mfaOutcome, saveOut,
          loginErr, loginSession, loginHeld, cancelled, cancelledInPrompt,
          cl, disk, memS, ret, cc, enc, encLog, ac>>

(***************************************************************************)
(* Bounds                                                                  *)
(***************************************************************************)
MaxData == 3      \* payload bytes accepted by Write in one run
MaxLateCalls == 1 \* Write and Close calls after the first Close in one run
MaxNow == 10      \* last clock value (hours)
MaxInitExpiry == 2 \* latest expiresAt of the Session handed to NewClient
MaxCrcState == 40 \* CRC states 0..MaxCrcState are among those compared
MaxEncCalls == 5  \* calls made on one buffered encoder

(***************************************************************************)
(* Bit arithmetic on unsigned integers                                     *)
(***************************************************************************)
\* bit i of a ^ b
XorBit(a, b, i) == (((a \div (2 ^ i)) % 2) + ((b \div (2 ^ i)) % 2)) % 2

\* a ^ b on 4-bit operands
Xor4(a, b) ==
    XorBit(a, b, 0) + (2 * XorBit(a, b, 1)) + (4 * XorBit(a, b, 2))
        + (8 * XorBit(a, b, 3))

\* a ^ b on uint16 operands
Xor(a, b) ==
    Xor4(a % 16, b % 16)
        + (16 * Xor4((a \div 16) % 16, (b \div 16) % 16))
        + (256 * Xor4((a \div 256) % 16, (b \div 256) % 16))
        + (4096 * Xor4((a \div 4096) % 16, (b \div 4096) % 16))

PutUint16(v) == << (v % 256), ((v \div 256) % 256) >>

PutUint32(v) ==
    << (v % 256), ((v \div 256) % 256), ((v \div 65536) % 256),
       ((v \div 16777216) % 256) >>

Uint16(bs) == bs[1] + (256 * bs[2])

Uint32(bs) ==
    bs[1] + (256 * bs[2]) + (65536 * bs[3]) + (16777216 * bs[4])

\* uint32(e.dataSize)
ToUint32(n) == (n % 65536) + (65536 * ((n \div 65536) % 65536))

(***************************************************************************)
(* CRC-16, nibble-wise table-driven (FitEncoder.updateCRC)                 *)
(***************************************************************************)
crcTable ==
    << 0, 52225, 55297, 5120, 61441, 15360, 10240, 58369,
       40961, 27648, 30720, 46081, 20480, 39937, 34817, 17408 >>

crcByte(c, b) ==
    LET tmp1 == crcTable[(c % 16) + 1]
        c1   == Xor(Xor((c \div 16) % 4096, tmp1), crcTable[(b % 16) + 1])
        tmp2 == crcTable[(c1 % 16) + 1]
    IN  Xor(Xor((c1 \div 16) % 4096, tmp2), crcTable[((b \div 16) % 16) + 1])

\* one loop iteration per byte; the new crc is a uint16 before the next byte
RECURSIVE updateCRC(_, _)
updateCRC(c, data) ==
    IF data = <<>> THEN c
    ELSE LET c2 == crcByte(c, Head(data))
         IN  IF c2 \in 0..65535 THEN updateCRC(c2, Tail(data)) ELSE c2

\* calcCRC of the buffered encoder
calcCRCHighFirst(c, byteVal) ==
    LET tmp1 == crcTable[(c % 16) + 1]
        c1   == Xor(Xor((c \div 16) % 4096, tmp1),
                    crcTable[((byteVal \div 16) % 16) + 1])
        tmp2 == crcTable[(c1 % 16) + 1]
    IN  Xor(Xor((c1 \div 16) % 4096, tmp2), crcTable[(byteVal % 16) + 1])

calcCRC(c, byteVal) ==
    LET tmp1 == crcTable[(c % 16) + 1]
        c1   == Xor(Xor((c \div 16) % 4096, tmp1),
                    crcTable[(byteVal % 16) + 1])
        tmp2 == crcTable[(c1 % 16) + 1]
    IN  Xor(Xor((c1 \div 16) % 4096, tmp2),
            crcTable[((byteVal \div 16) % 16) + 1])

\* the CRC states compared: the low ones, each single bit, all bits
CrcStates ==
    (0..MaxCrcState) \cup { 2 ^ k : k \in 0..15 } \cup { 65535 }

\* an encoder whose crc is c runs updateCRC on the one byte b; calcCRC is
\* called with the same c and b
ApplyCRC ==
    /\ cc.pc = "start"
    /\ cc' = [cc EXCEPT !.pc = "done",
                        !.out = updateCRC(cc.c, << cc.b >>),
                        !.ref = calcCRC(cc.c, cc.b)]

(***************************************************************************)
(* The buffered FitEncoder: NewFitEncoder(), AddActivity, Encode           *)
(***************************************************************************)
FitHeaderSize == 12

\* writeHeader: e.buf.Reset(), then six bytes (header size, protocol version,
\* four bytes of profile version), the data size and ".FIT"
writeHeader(hs, size) ==
    << hs, 16, 0, 0, 0, 108 >> \o PutUint32(ToUint32(size))
        \o << 46, 70, 73, 84 >>

\* writeCRC: calcCRC folded from 0 over the buffer, appended little-endian
writeCRC(data) ==
    LET RECURSIVE run(_, _)
        run(c, rest) ==
            IF rest = <<>> THEN c
            ELSE LET c2 == calcCRC(c, Head(rest))
                 IN  IF c2 \in 0..65535 THEN run(c2, Tail(rest)) ELSE c2
    IN  data \o PutUint16(run(0, data))

Activities == { "Running", "Cycling" }

\* NewFitEncoder()
InitEnc ==
    /\ enc = [buf |-> writeHeader(FitHeaderSize, 0),
              headerSize |-> FitHeaderSize, activityDefined |-> FALSE]
    /\ encLog = <<>>

\* AddActivity returns nil and writes nothing
AddActivity(activity) ==
    /\ Len(encLog) < MaxEncCalls
    /\ encLog' = Append(encLog, [op |-> "AddActivity", arg |-> activity,
                                 out |-> <<>>])
    /\ UNCHANGED enc

\* Encode: the data size is what the buffer holds beyond headerSize bytes
Encode ==
    LET size == Len(enc.buf) - enc.headerSize
        data == writeCRC(writeHeader(enc.headerSize, size))
    IN  /\ Len(encLog) < MaxEncCalls
        /\ enc' = [enc EXCEPT !.buf = data]
        /\ encLog' = Append(encLog, [op |-> "Encode", arg |-> "",
                                     out |-> data])

(***************************************************************************)
(* auth.AuthClient: Authenticate and RefreshToken                          *)
(***************************************************************************)
\* c.Client.Do returned an error, or no request was sent
NoResponse ==
    [ok |-> FALSE, status |-> 0, json |-> FALSE, access_token |-> "",
     refresh_token |-> "", expires_in |-> 0, token_type |-> ""]

\* What an endpoint answers.  json: the body decodes into the struct the
\* caller reads it into.  access_token, refresh_token: the cookies of that
\* name on a login answer, the body fields of that name on a token answer
\* (a missing one is the empty string).
Responses ==
    { NoResponse } \cup
    { [ok |-> TRUE, status |-> st, json |-> j, access_token |-> a,
       refresh_token |-> r, expires_in |-> 3600, token_type |-> "Bearer"] :
          st \in { 200, 401, 500 }, j \in BOOLEAN,
          a \in { "", "access-token" }, r \in { "", "refresh-token" } }

\* a Token without its Expiry, which is time.Now() plus ExpiresIn seconds
\* wherever the code sets it
NilToken ==
    [AccessToken |-> "", RefreshToken |-> "", ExpiresIn |-> 0,
     TokenType |-> ""]

\* the Tokens handed to RefreshToken
OldTokens ==
    { [NilToken EXCEPT !.RefreshToken = "old-refresh-token"],
      [NilToken EXCEPT !.AccessToken = "old-access-token",
                       !.RefreshToken = "old-refresh-token",
                       !.ExpiresIn = 3600, !.TokenType = "Bearer"] }

NeedsMFANever(status) == FALSE

\* resp.StatusCode == http.StatusUnauthorized
NeedsMFA(status) == status = 401

MissingFieldsBoth(a, r) == a = "" /\ r = ""

\* AccessToken == "" || RefreshToken == ""
MissingFields(a, r) == a = "" \/ r = ""

InitAuth ==
    ac = [op |-> "none", mfaToken |-> "", first |-> NoResponse,
          last |-> NoResponse, requests |-> <<>>, tokenIn |-> NilToken,
          tokenAfter |-> NilToken, err |-> "none", held |-> FALSE,
          token |-> NilToken]

\* Authenticate(ctx, username, password, mfaToken); r1 answers the login
\* request and r2 the MFA verification request, when one is sent.
Authenticate(mfaToken, validURL, r1, r2) ==
    LET Fail(reqs, resp, e) ==
            [op |-> "Authenticate", mfaToken |-> mfaToken, first |-> r1,
             last |-> resp, requests |-> reqs, tokenIn |-> NilToken,
             tokenAfter |-> NilToken, err |-> e, held |-> FALSE,
             token |-> NilToken]
        Final(reqs, resp) ==
            IF resp.status # 200
            THEN Fail(reqs, resp, "authentication failed")
            ELSE IF MissingFields(resp.access_token, resp.refresh_token)
            THEN Fail(reqs, resp,
                      "tokens not found in authentication response")
            ELSE [Fail(reqs, resp, "none") EXCEPT
                     !.held = TRUE,
                     !.token = [AccessToken |-> resp.access_token,
                                RefreshToken |-> resp.refresh_token,
                                ExpiresIn |-> 3600, TokenType |-> "Bearer"]]
    IN  ac' = IF ~validURL
              THEN [Fail(<<>>, NoResponse, "failed to create login request")
                       EXCEPT !.first = NoResponse]
              ELSE IF ~r1.ok
              THEN Fail(<< "login" >>, r1, "login request failed")
              ELSE IF ~NeedsMFA(r1.status)
              THEN Final(<< "login" >>, r1)
              ELSE IF ~r1.json
              THEN Fail(<< "login" >>, r1, "failed to parse MFA response")
              ELSE IF mfaToken = ""
              THEN Fail(<< "login" >>, r1,
                        "MFA required but no token provided")
              ELSE IF ~r2.ok
              THEN Fail(<< "login", "mfa" >>, r2, "MFA request failed")
              ELSE Final(<< "login", "mfa" >>, r2)

\* RefreshToken(ctx, token); r answers the request to c.TokenURL.  The code
\* reads token.RefreshToken and never assigns through token.
RefreshToken(token, validURL, r) ==
    LET Fail(reqs, e) ==
            [op |-> "RefreshToken", mfaToken |-> "", first |-> r,
             last |-> r, requests |-> reqs, tokenIn |-> token,
             tokenAfter |-> token, err |-> e, held |-> FALSE,
             token |-> NilToken]
    IN  ac' = IF ~validURL
              THEN [Fail(<<>>, "failed to create token request") EXCEPT
                       !.first = NoResponse, !.last = NoResponse]
              ELSE IF ~r.ok
              THEN Fail(<< "token" >>, "token refresh failed")
              ELSE IF r.status # 200
              THEN Fail(<< "token" >>, "token refresh failed with status")
              ELSE IF ~r.json
              THEN Fail(<< "token" >>, "failed to parse token response")
              ELSE IF MissingFields(r.access_token, r.refresh_token)
              THEN Fail(<< "token" >>,
                        "token response missing required fields")
              ELSE [Fail(<< "token" >>, "none") EXCEPT
                       !.held = TRUE,
                       !.token = [AccessToken |-> r.access_token,
                                  RefreshToken |-> r.refresh_token,
                                  ExpiresIn |-> r.expires_in,
                                  TokenType |-> r.token_type]]

(***************************************************************************)
(* The sink (io.WriteSeeker over a growable byte buffer)                   *)
(***************************************************************************)
\* Write data at the current position, overwriting or extending the buffer.
SinkWrite(s, data) ==
    LET end == s.pos + Len(data)
    IN  [buf |-> SubSeq(s.buf, 1, s.pos) \o data
                    \o SubSeq(s.buf, end + 1, Len(s.buf)),
         pos |-> end]

SinkSeek(s, p) == [s EXCEPT !.pos = p]

Prefix(data, k) == SubSeq(data, 1, k)

\* bytes at offsets from..to (0-based, inclusive) of the buffer
Bytes(buf, from, to) == SubSeq(buf, from + 1, to + 1)

(***************************************************************************)
(* NewFitEncoder                                                           *)
(***************************************************************************)
HeaderLen == 14

PlaceholderHeader == << 14, 16, 0, 45, 0, 0, 0, 0, 46, 70, 73, 84, 0, 0 >>

\* what the sink already holds when the encoder is created
Preambles == { <<>>, <<170>> }

InitFitEncoder ==
    /\ \E pre \in Preambles :
          /\ startPos = Len(pre)
          /\ w = SinkWrite([buf |-> pre, pos |-> Len(pre)], PlaceholderHeader)
    /\ crc = updateCRC(0, PlaceholderHeader)
    /\ dataSize = 0
    /\ headerSize = HeaderLen
    /\ fitLastOp = "New"
    /\ fitLastErr = FALSE
    /\ closeCalls = 0
    /\ priorCloses = 0
    /\ lateCalls = 0

(***************************************************************************)
(* FitEncoder.Write                                                        *)
(***************************************************************************)
ByteVals == { 0, 1, 255 }

Chunks ==
    { <<>> } \cup { <<a>> : a \in ByteVals }
             \cup { <<a, b>> : a \in ByteVals, b \in ByteVals }

AddDataSizeNoCount(ds, n) == ds

AddDataSize(ds, n) == ds + n

WriteCRCRestart(c, p) == updateCRC(0, p)

\* e.updateCRC(p) in Write: the loop starts from e.crc
WriteCRC(c, p) == updateCRC(c, p)

\* A caller that gets an error from Write or Close drops the encoder, so no
\* call follows one that failed.
Usable == ~fitLastErr /\ (closeCalls > 0 => lateCalls < MaxLateCalls)

LateCallsAfter == IF closeCalls > 0 THEN lateCalls + 1 ELSE lateCalls

\* k = Len(p): the sink took all of p; k < Len(p): it failed after k bytes.
Write(p, k) ==
    /\ Usable
    /\ closeCalls = 0 => dataSize + Len(p) <= MaxData
    /\ k \in 0..Len(p)
    /\ w' = SinkWrite(w, Prefix(p, k))
    /\ IF k < Len(p)
       THEN /\ fitLastErr' = TRUE
            /\ UNCHANGED <<crc, dataSize>>
       ELSE /\ crc' = WriteCRC(crc, p)
            /\ dataSize' = AddDataSize(dataSize, k)
            /\ fitLastErr' = FALSE
    /\ fitLastOp' = "Write"
    /\ priorCloses' = closeCalls
    /\ lateCalls' = LateCallsAfter
    /\ UNCHANGED <<headerSize, startPos, closeCalls>>

(***************************************************************************)
(* FitEncoder.Close                                                        *)
(***************************************************************************)
FinalHeader(dataSizeBytes) ==
    << 14, 16, 0, 45 >> \o dataSizeBytes \o << 46, 70, 73, 84 >>

HeaderCRCNoReset(c, header) == updateCRC(c, header)

\* e.crc = 0; e.updateCRC(header); headerCRC := e.crc
HeaderCRC(c, header) == updateCRC(0, header)

\* The sink calls of Close, in order: 1 Seek(current), 2 Seek(startPos+4),
\* 3 Write(dataSize), 4 Seek(startPos+12), 5 Write(headerCRC),
\* 6 Seek(currentPos), 7 Write(e.crc).  failAt names the call that returns
\* an error (0: none); a failing Write leaves k of its bytes in the sink.
CloseSteps == 7

Close(failAt, k) ==
    LET currentPos    == w.pos
        dataSizeBytes == PutUint32(ToUint32(dataSize))
        header        == FinalHeader(dataSizeBytes)
        headerCRC     == HeaderCRC(crc, header)
        crcBytes      == PutUint16(headerCRC)
        fileCRCBytes  == PutUint16(headerCRC)   \* e.crc, which now is headerCRC
        s2 == SinkSeek(w, startPos + 4)
        s3 == SinkWrite(s2, dataSizeBytes)
        s4 == SinkSeek(s3, startPos + 12)
        s5 == SinkWrite(s4, crcBytes)
        s6 == SinkSeek(s5, currentPos)
        s7 == SinkWrite(s6, fileCRCBytes)
    IN  /\ Usable
        /\ failAt \in 0..CloseSteps
        /\ k \in 0..1
        /\ (failAt \notin {3, 5, 7}) => k = 0
        /\ w' = CASE failAt = 0 -> s7
                  [] failAt = 1 -> w
                  [] failAt = 2 -> w
                  [] failAt = 3 -> SinkWrite(s2, Prefix(dataSizeBytes, k))
                  [] failAt = 4 -> s3
                  [] failAt = 5 -> SinkWrite(s4, Prefix(crcBytes, k))
                  [] failAt = 6 -> s5
                  [] failAt = 7 -> SinkWrite(s6, Prefix(fileCRCBytes, k))
        /\ crc' = IF failAt \in 1..3 THEN crc ELSE headerCRC
        /\ fitLastErr' = (failAt # 0)
        /\ fitLastOp' = "Close"
        /\ priorCloses' = closeCalls
        /\ closeCalls' = closeCalls + 1
        /\ lateCalls' = LateCallsAfter
        /\ UNCHANGED <<dataSize, headerSize, startPos>>

(***************************************************************************)
(* fit.Decoder                                                             *)
(***************************************************************************)
protocolMajor == 2

\* binary.Read(d.r, binary.LittleEndian, &header): FileHeader is Size uint8,
\* Protocol uint8, Profile [4]byte, DataSize uint32, Signature [4]byte
ReadHeader(data) ==
    [Size |-> data[1], Protocol |-> data[2], Profile |-> SubSeq(data, 3, 6),
     DataSize |-> Uint32(SubSeq(data, 7, 10)),
     Signature |-> SubSeq(data, 11, 14)]

\* Decoder.Parse on a reader holding data: the header it decoded and the
\* error it returned.  After the header it reads byte by byte up to the first
\* 0x21, which must be followed by a 17-byte record.
Parse(data) ==
    LET rest == SubSeq(data, 15, Len(data))
        at   == { i \in DOMAIN rest : rest[i] = 33 }
        first == CHOOSE i \in at : \A j \in at : i <= j
    IN  IF Len(data) < 14
        THEN [err |-> "unexpected EOF", header |-> ReadHeader(PlaceholderHeader)]
        ELSE [header |-> ReadHeader(data),
              err |-> IF ReadHeader(data).Protocol # protocolMajor
                      THEN "unsupported FIT protocol version"
                      ELSE IF at # {} /\ Len(rest) - first < 17
                      THEN "unexpected EOF"
                      ELSE "none"]

(***************************************************************************)
(* garth.Session and api.Client                                            *)
(***************************************************************************)
\* ExpiresAt is extended by 8 hours on every refresh
Lifetime == 8

NoFile == [exists |-> FALSE]

\* a session file cut short by a failed os.WriteFile
Truncated == [exists |-> TRUE, valid |-> FALSE]

FileOf(s) == [exists |-> TRUE, valid |-> TRUE, session |-> s]

\* a Session as the data model wants it: every field present and the
\* expiry still ahead at time t
FullyPopulated(s, t) ==
    /\ s.OAuth1Token # ""
    /\ s.OAuth1Secret # ""
    /\ s.OAuth2Token # ""
    /\ t < s.ExpiresAt

\* time.Now().After(s.ExpiresAt)
IsExpired(s, t) == t > s.ExpiresAt

NeedsRefreshAlways(held, s, t) == held

\* !(c.session == nil || !c.session.IsExpired())
NeedsRefresh(held, s, t) == held /\ IsExpired(s, t)

RefreshedSessionAll(s, newToken, t) ==
    [s EXCEPT !.OAuth1Token = newToken, !.OAuth2Token = newToken,
              !.ExpiresAt = t + Lifetime]

\* c.session.OAuth2Token = newToken; c.session.ExpiresAt = now + 8h
RefreshedSession(s, newToken, t) ==
    [s EXCEPT !.OAuth2Token = newToken, !.ExpiresAt = t + Lifetime]

\* tokens the provider hands out on refresh
RefreshTokens == { "T", "N1", "N2" }

\* results of Authenticator.RefreshToken
RefreshOutcomes ==
    { [ok |-> FALSE, token |-> ""] }
        \cup { [ok |-> TRUE, token |-> t] : t \in RefreshTokens }

\* results of Session.Save: nil, MkdirAll failed, WriteFile failed
SaveOutcomes == { "ok", "mkdir_failed", "write_failed" }

SaveResultStale(file, s, out) == file

SaveResult(file, s, out) ==
    CASE out = "ok" -> FileOf(s)
      [] out = "mkdir_failed" -> file
      [] out = "write_failed" -> Truncated

\* Client.refreshTokenIfNeeded: the error it returns and the state it leaves.
\* NewClient rejects a nil authenticator and c.auth is never reassigned, so
\* the "authenticator not configured" return is not reachable.
refreshTokenIfNeeded(r, save) ==
    IF ~NeedsRefresh(sessionHeld, session, now)
    THEN [err |-> "none", session |-> session, authHeader |-> authHeader,
          stored |-> stored, events |-> <<>>]
    ELSE IF ~r.ok
    THEN [err |-> "refresh_failed", session |-> session,
          authHeader |-> authHeader, stored |-> stored,
          events |-> <<"refresh_err">>]
    ELSE LET s2 == RefreshedSession(session, r.token, now) IN
         IF sessionPath = ""
         THEN [err |-> "none", session |-> s2, authHeader |-> r.token,
               stored |-> stored, events |-> <<"refresh_ok">>]
         ELSE [err |-> IF save = "ok" THEN "none" ELSE "save_failed",
               session |-> s2, authHeader |-> r.token,
               stored |-> SaveResult(stored, s2, save),
               events |-> <<"refresh_ok",
                            IF save = "ok" THEN "save_ok" ELSE "save_err">>]

\* what the HTTP round trip can come back with
HttpOutcomes ==
    { "transport_error", "ok", "ok_with_error", "unauthorized",
      "other_status" }

HeldAfterGetKeep(held, resp) == held

\* c.session = nil on 401
HeldAfterGet(held, resp) == IF resp = "unauthorized" THEN FALSE ELSE held

GetError(resp) ==
    CASE resp = "transport_error" -> "transport"
      [] resp = "ok_with_error"   -> "parse"
      [] resp = "unauthorized"    -> "reauth"
      [] resp = "other_status"    -> "api"
      [] resp = "ok"              -> "none"

\* Post has no 401 branch: every status >= 400 goes to handleAPIError
PostError(resp) ==
    CASE resp = "transport_error" -> "transport"
      [] resp = "ok_with_error"   -> "parse"
      [] resp = "unauthorized"    -> "api"
      [] resp = "other_status"    -> "api"
      [] resp = "ok"              -> "none"

\* the zero time.Time (year 1), earlier than every clock value
ZeroTime == -1

\* auth.Token values handed to LegacyAuthToGarth
LegacyTokens ==
    { [OAuthToken |-> "oauth1", OAuthSecret |-> "secret1", AccessToken |-> a] :
          a \in { "T", "" } }

\* LegacyAuthToGarth: the three strings are copied, ExpiresAt is left zero
LegacyAuthToGarth(legacyToken) ==
    [OAuth1Token |-> legacyToken.OAuthToken,
     OAuth1Secret |-> legacyToken.OAuthSecret,
     OAuth2Token |-> legacyToken.AccessToken,
     ExpiresAt |-> ZeroTime]

\* Sessions a caller can hand to NewClient (or NewClient can load from the
\* session file): NewClient and LoadSession look at no field.
InitSessions ==
    { [OAuth1Token |-> "oauth1", OAuth1Secret |-> "secret1",
       OAuth2Token |-> "T", ExpiresAt |-> e] : e \in 0..MaxInitExpiry }
        \cup { [OAuth1Token |-> "oauth1", OAuth1Secret |-> "secret1",
                OAuth2Token |-> "", ExpiresAt |-> MaxInitExpiry] }
        \cup { LegacyAuthToGarth(t) : t \in LegacyTokens }

SessionPaths == { "", "session.json" }

\* NewClient: the session is passed in, or (loaded = TRUE) read from the
\* session file because none was passed and a path is configured.
InitClient ==
    /\ session \in InitSessions
    /\ sessionPath \in SessionPaths
    /\ \E loaded \in BOOLEAN :
          /\ loaded => sessionPath # ""
          /\ stored = IF loaded THEN FileOf(session) ELSE NoFile
    /\ sessionHeld = TRUE
    /\ authHeader = session.OAuth2Token
    /\ now = 0
    /\ lastOp = "New"
    /\ lastErr = "none"
    /\ lastResp = "none"
    /\ events = <<>>
    /\ lastBearer = ""
    /\ preHeld = TRUE
    /\ preExpired = FALSE
    /\ reqFull = TRUE

Tick ==
    /\ now < MaxNow
    /\ now' = now + 1
    /\ UNCHANGED <<session, sessionHeld, sessionPath, authHeader, stored,
                   lastOp, lastErr, lastResp, events, lastBearer, preHeld,
                   preExpired, reqFull>>

Get(r, save, resp) ==
    LET rf == refreshTokenIfNeeded(r, save) IN
    /\ lastOp' = "Get"
    /\ preHeld' = sessionHeld
    /\ preExpired' = (sessionHeld /\ IsExpired(session, now))
    /\ session' = rf.session
    /\ authHeader' = rf.authHeader
    /\ stored' = rf.stored
    /\ IF rf.err # "none"
       THEN /\ lastErr' = rf.err
            /\ lastResp' = "none"
            /\ events' = rf.events
            /\ UNCHANGED <<sessionHeld, lastBearer, reqFull>>
       ELSE /\ events' = Append(rf.events, "http")
            /\ lastBearer' = rf.authHeader
            /\ reqFull' = (sessionHeld /\ FullyPopulated(rf.session, now))
            /\ lastResp' = resp
            /\ lastErr' = GetError(resp)
            /\ sessionHeld' = HeldAfterGet(sessionHeld, resp)
    /\ UNCHANGED <<sessionPath, now>>

Post(resp) ==
    /\ lastOp' = "Post"
    /\ preHeld' = sessionHeld
    /\ preExpired' = (sessionHeld /\ IsExpired(session, now))
    /\ reqFull' = (sessionHeld /\ FullyPopulated(session, now))
    /\ events' = <<"http">>
    /\ lastBearer' = authHeader
    /\ lastResp' = resp
    /\ lastErr' = PostError(resp)
    /\ UNCHANGED <<session, sessionHeld, sessionPath, authHeader, stored,
                   now>>

(***************************************************************************)
(* GarthAuthenticator.Login                                                *)
(***************************************************************************)
\* the MFAPrompter field: unset, DefaultConsolePrompter, a test double
Prompters == { "nil", "console", "mock" }

Authenticators ==
    { [SessionPath |-> p, MFAPrompter |-> m] :
          p \in SessionPaths, m \in Prompters }

NoBody == [mfa |-> FALSE, mfaContext |-> "", verifier |-> ""]

\* what the regular expressions of authenticate can find in a sign-in page
SigninBodies ==
    { [mfa |-> m, mfaContext |-> c, verifier |-> v] :
          m \in BOOLEAN, c \in { "", "context123" },
          v \in { "", "test_verifier" } }

\* results of the POST to /sso/signin: a transport error or a page
SigninResults ==
    { [ok |-> FALSE, body |-> NoBody] }
        \cup { [ok |-> TRUE, body |-> b] : b \in SigninBodies }

extractVerifierFromResponse(body) ==
    IF body.verifier # ""
    THEN [verifier |-> body.verifier, err |-> "none"]
    ELSE [verifier |-> "", err |-> "verifier not found in response"]

\* the one code the provider accepts
GoodCode == "654321"

MFACodes == { "", GoodCode, "wrong" }

\* what GetMFACode can return.  The console prompter returns the line read
\* (possibly empty), ("", nil) at end of input and ("", err) on a read error;
\* the test double returns its Code and Err fields.
PromptResults(prompter) ==
    { [code |-> c, err |-> "none"] : c \in MFACodes }
        \cup { [code |-> "", err |-> "prompt error"] }
        \cup IF prompter = "mock"
             THEN { [code |-> GoodCode, err |-> "prompt error"] }
             ELSE {}

\* context.Background() is what authenticate hands to GetMFACode: it is
\* never done, whatever the caller of Login has signalled.
PromptCtxDone(callerCancelled) == FALSE

\* answers to the POST to /sso/verifyMFA
MFAResponses == { "transport_error", "accepted", "rejected", "garbled" }

ProviderAccepts(code) == code = GoodCode

\* the page that answers the MFA submission
MFABody(out) ==
    IF out = "accepted"
    THEN [mfa |-> FALSE, mfaContext |-> "", verifier |-> "mfa_verifier"]
    ELSE NoBody

\* wrapping by Login: fmt.Errorf("authentication failed: %w", err)
AuthFailed(err) == [step |-> "authenticate", cause |-> err]

NoError == [step |-> "none", cause |-> "none"]

StepResultContinue(failed, next) == next

\* if err != nil { return nil, ... }: a failed step ends Login
StepResult(failed, next) == IF failed THEN "done" ELSE next

HeldAfterSaveNil(out) == out = "ok"

\* return session, fmt.Errorf("failed to save session: %w", err)
HeldAfterSave(out) == TRUE

NoSession ==
    [OAuth1Token |-> "", OAuth1Secret |-> "", OAuth2Token |-> "",
     ExpiresAt |-> ZeroTime]

InitLogin ==
    /\ g \in Authenticators
    /\ pcLogin = "request_token"
    /\ steps = <<>>
    /\ signinBody = NoBody
    /\ mfaCode = ""
    /\ mfaOutcome = "none"
    /\ saveOut = "none"
    /\ loginErr = NoError
    /\ loginSession = NoSession
    /\ loginHeld = FALSE
    /\ cancelled = FALSE
    /\ cancelledInPrompt = FALSE

\* Step 1: getRequestToken.  ok = FALSE: the POST returned a transport error.
GetRequestToken(ok) ==
    /\ pcLogin = "request_token"
    /\ steps' = Append(steps, "request_token")
    /\ pcLogin' = StepResult(~ok, "signin")
    /\ loginErr' = IF ok THEN loginErr
                   ELSE [step |-> "request_token", cause |-> "transport"]
    /\ UNCHANGED <<g, signinBody, mfaCode, mfaOutcome, saveOut, loginSession,
                   loginHeld, cancelled, cancelledInPrompt, stored, now>>

\* authenticate, up to the MFA prompt
SignIn(r) ==
    LET v == extractVerifierFromResponse(r.body)
        err == IF ~r.ok THEN "login request failed"
               ELSE IF r.body.mfa
               THEN IF r.body.mfaContext = ""
                    THEN "MFA required but no context found"
                    ELSE "none"
               ELSE v.err
    IN  /\ pcLogin = "signin"
        /\ steps' = Append(steps, "signin")
        /\ signinBody' = r.body
        /\ pcLogin' = StepResult(err # "none",
                                 IF r.body.mfa THEN "mfa_prompt"
                                 ELSE "access_token")
        /\ loginErr' = IF err = "none" THEN loginErr ELSE AuthFailed(err)
        /\ UNCHANGED <<g, mfaCode, mfaOutcome, saveOut, loginSession,
                       loginHeld, cancelled, cancelledInPrompt, stored, now>>

\* g.MFAPrompter.GetMFACode(context.Background()) returns; on a nil
\* MFAPrompter the call is a nil dereference and Login panics.
Prompt(res) ==
    /\ pcLogin = "mfa_prompt"
    /\ IF g.MFAPrompter = "nil"
       THEN /\ pcLogin' = "panic"
            /\ UNCHANGED <<steps, mfaCode, loginErr>>
       ELSE /\ res \in PromptResults(g.MFAPrompter)
                    \cup IF PromptCtxDone(cancelled)
                         THEN { [code |-> "", err |-> "context canceled"] }
                         ELSE {}
            /\ steps' = Append(steps, "mfa_prompt")
            /\ pcLogin' = StepResult(res.err # "none", "mfa_submit")
            /\ mfaCode' = IF res.err = "none" THEN res.code ELSE mfaCode
            /\ loginErr' = IF res.err = "none" THEN loginErr
                           ELSE AuthFailed(IF res.err = "context canceled"
                                           THEN "MFA prompt failed: canceled"
                                           ELSE "MFA prompt failed")
    /\ UNCHANGED <<g, signinBody, mfaOutcome, saveOut, loginSession,
                   loginHeld, cancelled, cancelledInPrompt, stored, now>>

\* the POST to /sso/verifyMFA and the verifier read from its answer
SubmitMFA(out) ==
    LET v == extractVerifierFromResponse(MFABody(out))
        err == IF out = "transport_error" THEN "MFA submission failed"
               ELSE v.err
    IN  /\ pcLogin = "mfa_submit"
        /\ out = "accepted" => ProviderAccepts(mfaCode)
        /\ out = "rejected" => ~ProviderAccepts(mfaCode)
        /\ steps' = Append(steps, "mfa_submit")
        /\ mfaOutcome' = out
        /\ pcLogin' = StepResult(err # "none", "access_token")
        /\ loginErr' = IF err = "none" THEN loginErr ELSE AuthFailed(err)
        /\ UNCHANGED <<g, signinBody, mfaCode, saveOut, loginSession,
                       loginHeld, cancelled, cancelledInPrompt, stored, now>>

\* what a provider answers at /oauth-service/oauth/access_token and at
\* /oauth-service/oauth/exchange/user/2.0: the test server's values and
\* another provider's.  Steps 3 and 4 send no request, so a run of Login is
\* the same run whichever of these the provider would answer.
ProviderAnswers ==
    { [oauth_token |-> "access_token", oauth_token_secret |-> "access_secret",
       oauth2 |-> "oauth2_token"],
      [oauth_token |-> "tokA", oauth_token_secret |-> "secA",
       oauth2 |-> "tokB"] }

\* Step 3: getAccessToken returns ("access_token", "access_secret", nil)
GetAccessToken ==
    /\ pcLogin = "access_token"
    /\ steps' = Append(steps, "access_token")
    /\ pcLogin' = StepResult(FALSE, "oauth2")
    /\ UNCHANGED <<g, signinBody, mfaCode, mfaOutcome, saveOut, loginErr,
                   loginSession, loginHeld, cancelled, cancelledInPrompt,
                   stored, now>>

\* Step 4: getOAuth2Token returns ("oauth2_access_token", nil); the Session
\* is assembled, and returned at once when no path is configured.
GetOAuth2Token ==
    /\ pcLogin = "oauth2"
    /\ steps' = Append(steps, "oauth2")
    /\ loginSession' = [OAuth1Token |-> "access_token",
                        OAuth1Secret |-> "access_secret",
                        OAuth2Token |-> "oauth2_access_token",
                        ExpiresAt |-> now + Lifetime]
    /\ pcLogin' = StepResult(FALSE,
                             IF g.SessionPath # "" THEN "save" ELSE "done")
    /\ loginHeld' = (g.SessionPath = "")
    /\ UNCHANGED <<g, signinBody, mfaCode, mfaOutcome, saveOut, loginErr,
                   cancelled, cancelledInPrompt, stored, now>>

\* session.Save(g.SessionPath) and Login's return
LoginSave(out) ==
    /\ pcLogin = "save"
    /\ steps' = Append(steps, "save")
    /\ saveOut' = out
    /\ stored' = SaveResult(stored, loginSession, out)
    /\ pcLogin' = "done"
    /\ loginErr' = IF out = "ok" THEN loginErr
                   ELSE [step |-> "save", cause |-> out]
    /\ loginHeld' = HeldAfterSave(out)
    /\ UNCHANGED <<g, signinBody, mfaCode, mfaOutcome, loginSession,
                   cancelled, cancelledInPrompt, now>>

\* the caller of Login signals cancellation; Login takes no context
Cancel ==
    /\ pcLogin \notin { "done", "panic" }
    /\ ~cancelled
    /\ cancelled' = TRUE
    /\ cancelledInPrompt' = (pcLogin = "mfa_prompt")
    /\ UNCHANGED <<g, pcLogin, steps, signinBody, mfaCode, mfaOutcome,
                   saveOut, loginErr, loginSession, loginHeld, stored, now>>

\* A provider endpoint never answers the POST Login has sent at this step
\* (getRequestToken, sign-in, MFA submission).  resty.New() sets no timeout
\* and Login passes no context, so the call does not return.
NeverResponds ==
    /\ pcLogin \in { "request_token", "signin", "mfa_submit" }
    /\ pcLogin' = "blocked"
    /\ UNCHANGED <<g, steps, signinBody, mfaCode, mfaOutcome, saveOut,
                   loginErr, loginSession, loginHeld, cancelled,
                   cancelledInPrompt, stored, now>>

\* the clock, while Login runs
LoginTick ==
    /\ now < MaxNow
    /\ now' = now + 1
    /\ UNCHANGED <<loginVars, stored>>

(***************************************************************************)
(* Two goroutines calling Get on one Client.  The Client has no lock, so    *)
(* the statements of refreshTokenIfNeeded, Session.Save and Get interleave. *)
(***************************************************************************)
Procs == { 1, 2 }

\* no refresh decided yet
NoExpiry == ZeroTime - 1

ProcIdle == [pc |-> "idle", tok |-> "", exp |-> NoExpiry, data |-> NoSession]

ConcIdle == cl = [p \in Procs |-> ProcIdle]

\* the goroutine calls c.Get
CallGet(p) ==
    /\ cl[p].pc = "idle"
    /\ cl' = [cl EXCEPT ![p].pc = "check"]
    /\ UNCHANGED <<session, sessionHeld, authHeader, stored>>

\* if c.session == nil || !c.session.IsExpired() { return nil }
CheckExpired(p) ==
    /\ cl[p].pc = "check"
    /\ cl' = IF NeedsRefresh(sessionHeld, session, now)
             THEN [cl EXCEPT ![p].pc = "refresh", ![p].exp = session.ExpiresAt]
             ELSE [cl EXCEPT ![p].pc = "http"]
    /\ UNCHANGED <<session, sessionHeld, authHeader, stored>>

\* c.auth.RefreshToken returns
RefreshReturn(p, r) ==
    /\ cl[p].pc = "refresh"
    /\ cl' = IF r.ok
             THEN [cl EXCEPT ![p].pc = "update", ![p].tok = r.token]
             ELSE [cl EXCEPT ![p].pc = "done"]
    /\ UNCHANGED <<session, sessionHeld, authHeader, stored>>

\* c.session.OAuth2Token = newToken; c.session.ExpiresAt = now + 8h
UpdateSession(p) ==
    /\ cl[p].pc = "update"
    /\ session' = RefreshedSession(session, cl[p].tok, now)
    /\ cl' = [cl EXCEPT ![p].pc = "header"]
    /\ UNCHANGED <<sessionHeld, authHeader, stored>>

\* c.HTTPClient.SetHeader("Authorization", "Bearer "+newToken)
SetHeader(p) ==
    /\ cl[p].pc = "header"
    /\ authHeader' = cl[p].tok
    /\ cl' = [cl EXCEPT ![p].pc = IF sessionPath # "" THEN "marshal"
                                  ELSE "http"]
    /\ UNCHANGED <<session, sessionHeld, stored>>

\* Save: json.MarshalIndent(s) reads the shared Session
SaveMarshal(p) ==
    /\ cl[p].pc = "marshal"
    /\ cl' = [cl EXCEPT ![p].pc = "write", ![p].data = session]
    /\ UNCHANGED <<session, sessionHeld, authHeader, stored>>

\* Save: MkdirAll and os.WriteFile.  While the other goroutine is writing the
\* same file the two writes interleave and the file can end up garbled.
SaveWrite(p, out) ==
    /\ cl[p].pc = "write"
    /\ stored' \in { SaveResult(stored, cl[p].data, out) }
                     \cup IF \E q \in Procs \ {p} : cl[q].pc = "write"
                          THEN { Truncated }
                          ELSE {}
    /\ cl' = [cl EXCEPT ![p].pc = IF out = "ok" THEN "http" ELSE "done"]
    /\ UNCHANGED <<session, sessionHeld, authHeader>>

\* the HTTP round trip of Get and its classification
SendRequest(p, resp) ==
    /\ cl[p].pc = "http"
    /\ sessionHeld' = HeldAfterGet(sessionHeld, resp)
    /\ cl' = [cl EXCEPT ![p].pc = "done"]
    /\ UNCHANGED <<session, authHeader, stored>>

\* what the two calls leave alone; they run within one reading of the clock
concFrame == <<sessionPath, now, lastOp, lastErr, lastResp, events,
               lastBearer, preHeld, preExpired, reqFull>>

(***************************************************************************)
(* Session.Save and LoadSession: the JSON document and the file            *)
(***************************************************************************)
MaxWall == 1      \* latest instant of a stored ExpiresAt

Paths == { "a.json", "b.json" }

\* a string holding a byte sequence that is not UTF-8
BadString == "tok<FF>"

StoreStrings == { "", "tok", BadString }

\* encoding/json writes strings coerced to valid UTF-8: an invalid byte
\* becomes U+FFFD
ToValidUTF8(str) == IF str = BadString THEN "tok<FFFD>" ELSE str

\* time.Time: the instant (wall), whether it carries a monotonic clock
\* reading (as time.Now() does), and the seconds by which the zone offset
\* exceeds a whole number of minutes
Times ==
    { [wall |-> i, mono |-> m, zsec |-> z] :
          i \in 0..MaxWall, m \in BOOLEAN, z \in { 0, 30 } }

StoreSessions ==
    { [OAuth1Token |-> a, OAuth1Secret |-> b, OAuth2Token |-> c,
       ExpiresAt |-> t] :
          a \in StoreStrings, b \in StoreStrings, c \in StoreStrings,
          t \in Times }

\* Time.MarshalJSON: RFC 3339 with nanoseconds and the offset in hours and
\* minutes; the monotonic reading and the offset's seconds are not written
MarshalTime(t) == t.wall + t.zsec

\* Time.UnmarshalJSON
UnmarshalTime(text) == [wall |-> text, mono |-> FALSE, zsec |-> 0]

MarshalSessionNoSecret(s) ==
    [oauth1_token |-> ToValidUTF8(s.OAuth1Token),
     oauth1_secret |-> "",
     oauth2_token |-> ToValidUTF8(s.OAuth2Token),
     expires_at |-> MarshalTime(s.ExpiresAt)]

\* json.MarshalIndent(s, "", "  ") with the struct's json tags
MarshalSession(s) ==
    [oauth1_token |-> ToValidUTF8(s.OAuth1Token),
     oauth1_secret |-> ToValidUTF8(s.OAuth1Secret),
     oauth2_token |-> ToValidUTF8(s.OAuth2Token),
     expires_at |-> MarshalTime(s.ExpiresAt)]

\* json.Unmarshal(data, &session)
UnmarshalSession(doc) ==
    [OAuth1Token |-> doc.oauth1_token,
     OAuth1Secret |-> doc.oauth1_secret,
     OAuth2Token |-> doc.oauth2_token,
     ExpiresAt |-> UnmarshalTime(doc.expires_at)]

DocFile(doc) == [exists |-> TRUE, valid |-> TRUE, doc |-> doc]

NilSession ==
    [OAuth1Token |-> "", OAuth1Secret |-> "", OAuth2Token |-> "",
     ExpiresAt |-> UnmarshalTime(0)]

NoCall ==
    [op |-> "none", path |-> "", err |-> "none", held |-> FALSE,
     session |-> NilSession]

InitStore ==
    /\ disk = [p \in Paths |-> NoFile]
    /\ memS \in StoreSessions
    /\ ret = NoCall

\* s.Save(path); a time whose year JSON cannot write is outside Times
Save(path, out) ==
    /\ disk' = [disk EXCEPT ![path] =
                   CASE out = "ok" -> DocFile(MarshalSession(memS))
                     [] out = "mkdir_failed" -> disk[path]
                     [] out = "write_failed" -> Truncated]
    /\ ret' = [op |-> "Save", path |-> path,
               err |-> IF out = "ok" THEN "none" ELSE out,
               held |-> FALSE, session |-> NilSession]
    /\ UNCHANGED memS

\* LoadSession(path)
LoadSession(path) ==
    /\ ret' = IF ~disk[path].exists
              THEN [op |-> "Load", path |-> path,
                    err |-> "failed to read session file", held |-> FALSE,
                    session |-> NilSession]
              ELSE IF ~disk[path].valid
              THEN [op |-> "Load", path |-> path,
                    err |-> "failed to unmarshal session data",
                    held |-> FALSE, session |-> NilSession]
              ELSE [op |-> "Load", path |-> path, err |-> "none",
                    held |-> TRUE,
                    session |-> UnmarshalSession(disk[path].doc)]
    /\ UNCHANGED <<disk, memS>>

\* the store while the other machines run
StoreIdle ==
    /\ disk = [p \in Paths |-> NoFile]
    /\ memS = NilSession
    /\ ret = NoCall

(***************************************************************************)
(* Specifications                                                          *)
(***************************************************************************)
\* the client as it stands while only the encoder runs
ClientIdle ==
    /\ session = [OAuth1Token |-> "oauth1", OAuth1Secret |-> "secret1",
                  OAuth2Token |-> "T", ExpiresAt |-> 0]
    /\ sessionPath = ""
    /\ stored = NoFile
    /\ sessionHeld = TRUE
    /\ authHeader = "T"
    /\ now = 0
    /\ lastOp = "New"
    /\ lastErr = "none"
    /\ lastResp = "none"
    /\ events = <<>>
    /\ lastBearer = ""
    /\ preHeld = TRUE
    /\ preExpired = FALSE
    /\ reqFull = TRUE

\* the encoder as it stands while only the client runs
FitIdle ==
    /\ startPos = 0
    /\ w = SinkWrite([buf |-> <<>>, pos |-> 0], PlaceholderHeader)
    /\ crc = updateCRC(0, PlaceholderHeader)
    /\ dataSize = 0
    /\ headerSize = HeaderLen
    /\ fitLastOp = "New"
    /\ fitLastErr = FALSE
    /\ closeCalls = 0
    /\ priorCloses = 0
    /\ lateCalls = 0

\* the CRC comparison, the buffered encoder and the AuthClient, while
\* another machine runs
CrcIdle == cc = [pc |-> "idle", c |-> 0, b |-> 0, out |-> 0, ref |-> 0]

AuxIdle == CrcIdle /\ InitEnc /\ InitAuth

\* the authenticator while only the encoder or the client runs
LoginIdle ==
    /\ g = [SessionPath |-> "", MFAPrompter |-> "console"]
    /\ pcLogin = "request_token"
    /\ steps = <<>>
    /\ signinBody = NoBody
    /\ mfaCode = ""
    /\ mfaOutcome = "none"
    /\ saveOut = "none"
    /\ loginErr = NoError
    /\ loginSession = NoSession
    /\ loginHeld = FALSE
    /\ cancelled = FALSE
    /\ cancelledInPrompt = FALSE

InitFit == InitFitEncoder /\ ClientIdle /\ LoginIdle /\ ConcIdle
        /\ StoreIdle /\ AuxIdle

DoWrite == \E p \in Chunks : \E k \in 0..Len(p) : Write(p, k)

DoClose == \E failAt \in 0..CloseSteps : \E k \in 0..1 : Close(failAt, k)

NextFit ==
    \/ DoWrite /\ UNCHANGED <<clientVars, loginVars, cl, storeVars, auxVars>>
    \/ DoClose /\ UNCHANGED <<clientVars, loginVars, cl, storeVars, auxVars>>

SpecFit == InitFit /\ [][NextFit]_vars

InitCl == InitClient /\ FitIdle /\ LoginIdle /\ ConcIdle
        /\ StoreIdle /\ AuxIdle

DoGet ==
    \E r \in RefreshOutcomes : \E save \in SaveOutcomes :
        \E resp \in HttpOutcomes : Get(r, save, resp)

DoPost == \E resp \in HttpOutcomes : Post(resp)

NextClient ==
    \/ Tick /\ UNCHANGED <<fitVars, loginVars, cl, storeVars, auxVars>>
    \/ DoGet /\ UNCHANGED <<fitVars, loginVars, cl, storeVars, auxVars>>
    \/ DoPost /\ UNCHANGED <<fitVars, loginVars, cl, storeVars, auxVars>>

SpecClient == InitCl /\ [][NextClient]_vars

\* Login alone: the session file starts absent, no client exists yet
InitLog == InitLogin /\ ClientIdle /\ FitIdle /\ ConcIdle
        /\ StoreIdle /\ AuxIdle

DoGetRequestToken == \E ok \in BOOLEAN : GetRequestToken(ok)

DoSignIn == \E r \in SigninResults : SignIn(r)

DoPrompt == \E res \in PromptResults("mock") : Prompt(res)

DoSubmitMFA == \E out \in MFAResponses : SubmitMFA(out)

DoLoginSave == \E out \in SaveOutcomes : LoginSave(out)

NextLogin ==
    \/ DoGetRequestToken /\ UNCHANGED <<fitVars, clientRest, cl, storeVars, auxVars>>
    \/ DoSignIn /\ UNCHANGED <<fitVars, clientRest, cl, storeVars, auxVars>>
    \/ DoPrompt /\ UNCHANGED <<fitVars, clientRest, cl, storeVars, auxVars>>
    \/ DoSubmitMFA /\ UNCHANGED <<fitVars, clientRest, cl, storeVars, auxVars>>
    \/ GetAccessToken /\ UNCHANGED <<fitVars, clientRest, cl, storeVars, auxVars>>
    \/ GetOAuth2Token /\ UNCHANGED <<fitVars, clientRest, cl, storeVars, auxVars>>
    \/ DoLoginSave /\ UNCHANGED <<fitVars, clientRest, cl, storeVars, auxVars>>
    \/ Cancel /\ UNCHANGED <<fitVars, clientRest, cl, storeVars, auxVars>>
    \/ LoginTick /\ UNCHANGED <<fitVars, clientRest, cl, storeVars, auxVars>>

SpecLogin == InitLog /\ [][NextLogin]_vars

\* One Login whose provider may stop answering.  Fairness is on Login's
\* own steps (the ones that move pcLogin): a call that has its answer returns
\* and Login goes on.  Nothing is assumed of the caller or the clock.
NextLoginHang ==
    \/ NextLogin
    \/ NeverResponds /\ UNCHANGED <<fitVars, clientRest, cl, storeVars, auxVars>>

SpecLoginFair ==
    InitLog /\ [][NextLoginHang]_vars
        /\ WF_vars(NextLogin /\ pcLogin' # pcLogin)

\* before loginHandler has constructed the Client
NoClient ==
    /\ session = NoSession
    /\ sessionHeld = FALSE
    /\ sessionPath = ""
    /\ authHeader = ""
    /\ stored = NoFile
    /\ now = 0
    /\ lastOp = "none"
    /\ lastErr = "none"
    /\ lastResp = "none"
    /\ events = <<>>
    /\ lastBearer = ""
    /\ preHeld = FALSE
    /\ preExpired = FALSE
    /\ reqFull = TRUE

ClientUp == lastOp # "none"

\* loginHandler: when Login returned no error, NewClient(authClient, session,
\* sessionPath) with the Session of Login and the authenticator's path
NewClient ==
    /\ ~ClientUp
    /\ pcLogin = "done"
    /\ loginErr = NoError
    /\ loginHeld
    /\ session' = loginSession
    /\ sessionHeld' = TRUE
    /\ sessionPath' = g.SessionPath
    /\ authHeader' = loginSession.OAuth2Token
    /\ lastOp' = "New"
    /\ UNCHANGED <<stored, now, lastErr, lastResp, events, lastBearer,
                   preHeld, preExpired, reqFull>>

\* Login, then the Client built on its Session
InitSession == InitLogin /\ NoClient /\ FitIdle /\ ConcIdle
        /\ StoreIdle /\ AuxIdle

NextSession ==
    \/ DoGetRequestToken /\ UNCHANGED <<fitVars, clientRest, cl, storeVars, auxVars>>
    \/ DoSignIn /\ UNCHANGED <<fitVars, clientRest, cl, storeVars, auxVars>>
    \/ DoPrompt /\ UNCHANGED <<fitVars, clientRest, cl, storeVars, auxVars>>
    \/ DoSubmitMFA /\ UNCHANGED <<fitVars, clientRest, cl, storeVars, auxVars>>
    \/ GetAccessToken /\ UNCHANGED <<fitVars, clientRest, cl, storeVars, auxVars>>
    \/ GetOAuth2Token /\ UNCHANGED <<fitVars, clientRest, cl, storeVars, auxVars>>
    \/ DoLoginSave /\ UNCHANGED <<fitVars, clientRest, cl, storeVars, auxVars>>
    \/ NewClient /\ UNCHANGED <<fitVars, loginVars, cl, storeVars, auxVars>>
    \/ ClientUp /\ Tick /\ UNCHANGED <<fitVars, loginVars, cl, storeVars, auxVars>>
    \/ ClientUp /\ DoGet /\ UNCHANGED <<fitVars, loginVars, cl, storeVars, auxVars>>
    \/ ClientUp /\ DoPost /\ UNCHANGED <<fitVars, loginVars, cl, storeVars, auxVars>>

SpecSession == InitSession /\ [][NextSession]_vars

\* a Session, saved to and loaded from the paths of Paths
InitSt == InitStore /\ FitIdle /\ ClientIdle /\ LoginIdle /\ ConcIdle
        /\ AuxIdle

storeRest == <<fitVars, clientVars, loginVars, cl, auxVars>>

NextStore ==
    \/ \E path \in Paths : \E out \in SaveOutcomes :
          Save(path, out) /\ UNCHANGED storeRest
    \/ \E path \in Paths : LoadSession(path) /\ UNCHANGED storeRest

SpecStore == InitSt /\ [][NextStore]_vars

\* updateCRC and calcCRC on the same CRC state and byte
InitCrcSpec ==
    /\ \E c \in CrcStates : \E b \in 0..255 :
          cc = [pc |-> "start", c |-> c, b |-> b, out |-> 0, ref |-> 0]
    /\ FitIdle /\ ClientIdle /\ LoginIdle /\ ConcIdle /\ StoreIdle
    /\ InitEnc /\ InitAuth

NextCrc ==
    ApplyCRC /\ UNCHANGED <<fitVars, clientVars, loginVars, cl, storeVars,
                            enc, encLog, ac>>

\* one buffered encoder and the calls made on it
InitEncSpec ==
    /\ InitEnc /\ CrcIdle /\ InitAuth
    /\ FitIdle /\ ClientIdle /\ LoginIdle /\ ConcIdle /\ StoreIdle

encRest == <<fitVars, clientVars, loginVars, cl, storeVars, cc, ac>>

NextEnc ==
    \/ \E activity \in Activities : AddActivity(activity) /\ UNCHANGED encRest
    \/ Encode /\ UNCHANGED encRest

SpecEnc == InitEncSpec /\ [][NextEnc]_vars

\* calls of Authenticate and RefreshToken on one AuthClient
InitAuthSpec ==
    /\ InitAuth /\ CrcIdle /\ InitEnc
    /\ FitIdle /\ ClientIdle /\ LoginIdle /\ ConcIdle /\ StoreIdle

authRest == <<fitVars, clientVars, loginVars, cl, storeVars, cc, enc, encLog>>

NextAuth ==
    \/ \E mfaToken \in { "", "123456" } : \E validURL \in BOOLEAN :
          \E r1 \in Responses : \E r2 \in Responses :
              Authenticate(mfaToken, validURL, r1, r2) /\ UNCHANGED authRest
    \/ \E token \in OldTokens : \E validURL \in BOOLEAN :
          \E r \in Responses :
              RefreshToken(token, validURL, r) /\ UNCHANGED authRest

SpecAuth == InitAuthSpec /\ [][NextAuth]_vars

SpecCrc == InitCrcSpec /\ [][NextCrc]_vars

\* one Client, constructed by NewClient, shared by the goroutines of Procs
InitConc == InitClient /\ FitIdle /\ LoginIdle /\ ConcIdle
        /\ StoreIdle /\ AuxIdle

\* what a step of a goroutine leaves alone
concRest == <<fitVars, loginVars, concFrame, storeVars, auxVars>>

NextConc ==
    \/ \E p \in Procs : CallGet(p) /\ UNCHANGED concRest
    \/ \E p \in Procs : CheckExpired(p) /\ UNCHANGED concRest
    \/ \E p \in Procs : \E r \in RefreshOutcomes :
          RefreshReturn(p, r) /\ UNCHANGED concRest
    \/ \E p \in Procs : UpdateSession(p) /\ UNCHANGED concRest
    \/ \E p \in Procs : SetHeader(p) /\ UNCHANGED concRest
    \/ \E p \in Procs : SaveMarshal(p) /\ UNCHANGED concRest
    \/ \E p \in Procs : \E out \in SaveOutcomes :
          SaveWrite(p, out) /\ UNCHANGED concRest
    \/ \E p \in Procs : \E resp \in HttpOutcomes :
          SendRequest(p, resp) /\ UNCHANGED concRest

SpecConc == InitConc /\ [][NextConc]_vars

(***************************************************************************)
(* Properties of the streaming encoder (SpecFit)                           *)
(***************************************************************************)
\* the one Close of the run has just returned nil
FirstCloseOk == fitLastOp = "Close" /\ ~fitLastErr /\ closeCalls = 1

\* ... and so had every Write before it
CleanRun == FirstCloseOk /\ priorCloses = 0

\* bytes of the sink between the end of the header and the last two bytes
PayloadLen == Len(w.buf) - startPos - HeaderLen - 2

\* C1: after NewFitEncoder, Writes that all succeed and one Close, header
\* bytes 4-7 (from the encoder's start position) hold, little-endian, the
\* number of payload bytes between the 14-byte header and the 2-byte file CRC.
C1_DataSizeField ==
    CleanRun =>
        Uint32(Bytes(w.buf, startPos + 4, startPos + 7)) = PayloadLen

C1_Witness == CleanRun /\ PayloadLen >= 2 /\ startPos = 1

\* C2: after Close the last two bytes of the file are the little-endian
\* CRC-16 of every preceding byte of the file (header and payload).
C2_FileCRC ==
    CleanRun =>
        Uint16(Bytes(w.buf, Len(w.buf) - 2, Len(w.buf) - 1))
            = updateCRC(0, Bytes(w.buf, startPos, Len(w.buf) - 3))

\* C3: after Close header bytes 12-13 hold, little-endian, the CRC-16 from
\* state 0 of the final header bytes 0-11 (back-filled data size included).
C3_HeaderCRC ==
    FirstCloseOk =>
        Uint16(Bytes(w.buf, startPos + 12, startPos + 13))
            = updateCRC(0, Bytes(w.buf, startPos, startPos + 11))

C3_Witness == FirstCloseOk /\ dataSize >= 2 /\ startPos = 1

\* C4: once a Close has returned, every further Close and every further
\* Write on the same encoder returns an error.
C4_ErrorAfterClose ==
    (fitLastOp \in {"Write", "Close"} /\ priorCloses >= 1) => fitLastErr

\* the container the encoder produced, from its first header byte on
Container == Bytes(w.buf, startPos, Len(w.buf) - 1)

\* C21: decoding the container the encoder produced succeeds, and the decoded
\* header's data size equals the payload length.
C21_DecodeEncoded ==
    CleanRun =>
        /\ Parse(Container).err = "none"
        /\ Parse(Container).header.DataSize = PayloadLen

\* C22: started on an empty sink, after successful Writes totalling n bytes
\* and one Close the sink holds exactly 14 + n + 2 bytes; with nothing (or
\* only the empty slice) written these are 16 bytes with data size 0, a
\* header CRC that is the CRC-16 of bytes 0-11 and a file CRC that is the
\* CRC-16 of bytes 0-13.
C22_OutputLength ==
    (CleanRun /\ startPos = 0) =>
        /\ Len(w.buf) = 14 + dataSize + 2
        /\ dataSize = 0 =>
              /\ Len(w.buf) = 16
              /\ Uint32(Bytes(w.buf, 4, 7)) = 0
              /\ Uint16(Bytes(w.buf, 12, 13)) = updateCRC(0, Bytes(w.buf, 0, 11))
              /\ Uint16(Bytes(w.buf, 14, 15)) = updateCRC(0, Bytes(w.buf, 0, 13))

\* every call so far was a Write that returned nil
OnlyWrites == closeCalls = 0 /\ ~fitLastErr

\* the payload bytes in the sink while no Close has run
Written == Bytes(w.buf, startPos + HeaderLen, Len(w.buf) - 1)

\* C29: the running CRC does not depend on how the payload is split into
\* Write calls: after any sequence of Writes the CRC state is the state that
\* one Write of the concatenated bytes leaves; and a Write of the empty slice
\* leaves the CRC state and the data size unchanged.
C29_SplitIndependent ==
    /\ [](OnlyWrites =>
             crc = updateCRC(updateCRC(0, PlaceholderHeader), Written))
    /\ [][ (fitLastOp' = "Write" /\ ~fitLastErr' /\ w' = w)
               => (crc' = crc /\ dataSize' = dataSize) ]_vars

C29_Witness ==
    /\ OnlyWrites
    /\ fitLastOp = "Write"
    /\ Written = << 1, 255, 0 >>
    /\ crc = updateCRC(updateCRC(0, PlaceholderHeader), << 1, 255, 0 >>)

(***************************************************************************)
(* Properties of the client (SpecClient)                                   *)
(***************************************************************************)
Count(seq, x) == Cardinality({ i \in DOMAIN seq : seq[i] = x })

Has(seq, x) == \E i \in DOMAIN seq : seq[i] = x

Refreshes(seq) == Count(seq, "refresh_ok") + Count(seq, "refresh_err")

C6_PostRefresh ==
    (lastOp = "Post" /\ preExpired) =>
        /\ events # <<>>
        /\ events[1] \in {"refresh_ok", "refresh_err"}
        /\ Has(events, "refresh_err") => ~Has(events, "http")

\* C7: a Get answered with HTTP 401 clears the held Session and returns the
\* reauthentication-required error; the request is sent once, nothing follows
\* it, and no Session is put in place again.
C7_Get401 ==
    (lastOp = "Get" /\ lastResp = "unauthorized") =>
        /\ ~sessionHeld
        /\ lastErr = "reauth"
        /\ Count(events, "http") = 1
        /\ events[Len(events)] = "http"

C7_Witness ==
    lastOp = "Get" /\ lastResp = "unauthorized" /\ preHeld /\ ~sessionHeld

\* C8: after a 401 has cleared the held Session every later Get returns an
\* error and sends no HTTP request.
C8_NoRequestAfterClear ==
    (lastOp = "Get" /\ ~preHeld) =>
        (lastErr # "none" /\ ~Has(events, "http"))

\* C9: a Post answered with HTTP 401 clears the held Session and returns the
\* reauthentication-required error.
C9_Post401 ==
    (lastOp = "Post" /\ lastResp = "unauthorized") =>
        (~sessionHeld /\ lastErr = "reauth")

\* C10: only a successful refresh changes the held Session; it sets the
\* OAuth2 token and the expiry (now + 8h) and leaves the OAuth1 token and
\* secret as they were.
C10_RefreshFrame ==
    [][ /\ session'.OAuth1Token = session.OAuth1Token
        /\ session'.OAuth1Secret = session.OAuth1Secret
        /\ session' # session =>
              /\ lastOp' = "Get"
              /\ Has(events', "refresh_ok")
              /\ session'.OAuth2Token = authHeader'
              /\ session'.ExpiresAt = now + Lifetime
      ]_vars

C10_Witness ==
    /\ lastOp = "Get"
    /\ Has(events, "refresh_ok")
    /\ session.OAuth2Token = "N1"
    /\ session.ExpiresAt = now + Lifetime
    /\ session.OAuth1Token = "oauth1"

\* C28: whenever refreshTokenIfNeeded returns an error (RefreshToken failed,
\* or the refreshed Session could not be saved), the held Session's OAuth2
\* token and expiry and the client's Authorization header are exactly what
\* they were before the call.
C28_FailedRefreshKeepsSession ==
    [][ (lastOp' = "Get" /\ lastErr' \in { "refresh_failed", "save_failed" })
            => /\ session'.OAuth2Token = session.OAuth2Token
               /\ session'.ExpiresAt = session.ExpiresAt
               /\ authHeader' = authHeader
      ]_vars

\* C11: Session.IsExpired is true exactly when the current time is greater
\* than or equal to the Session's expiresAt: true when now equals expiresAt,
\* false one time unit before.
C11_IsExpiredBoundary ==
    IsExpired(session, now) <=> (now >= session.ExpiresAt)

\* C17: whenever the client sends a request, it holds a Session whose OAuth1
\* token, OAuth1 secret and OAuth2 token are non-empty and whose expiresAt is
\* in the future; a Session with a field missing is never used for a request.
C17_OnlyFullSessionsUsed ==
    (lastOp \in {"Get", "Post"} /\ Has(events, "http")) =>
        (reqFull /\ lastBearer # "")

(***************************************************************************)
(* Properties of Login (SpecLogin)                                         *)
(***************************************************************************)
Last(seq) == seq[Len(seq)]

\* the step that must have run just before a step, given the sign-in page
Pred(step) ==
    CASE step = "signin"       -> "request_token"
      [] step = "mfa_prompt"   -> "signin"
      [] step = "mfa_submit"   -> "mfa_prompt"
      [] step = "access_token" -> IF signinBody.mfa THEN "mfa_submit"
                                  ELSE "signin"
      [] step = "oauth2"       -> "access_token"
      [] step = "save"         -> "oauth2"
      [] OTHER                 -> "nothing"

\* the steps an error of Login can come from
StepsOf(e) ==
    CASE e.step = "request_token" -> { "request_token" }
      [] e.cause \in { "login request failed",
                       "MFA required but no context found" } -> { "signin" }
      [] e.cause \in { "MFA prompt failed", "MFA prompt failed: canceled" }
            -> { "mfa_prompt" }
      [] e.cause = "MFA submission failed" -> { "mfa_submit" }
      [] e.cause = "verifier not found in response"
            -> { "signin", "mfa_submit" }
      [] OTHER -> {}

ProtocolFailure == loginErr.step \in { "request_token", "authenticate" }

UnparsedError == AuthFailed(extractVerifierFromResponse(NoBody).err)

\* C13: a Login whose sign-in signals MFA ends with a Session when the
\* provider accepts the code; when the provider rejects the code it ends with
\* an error and no Session, and that error differs from the protocol error
\* Login reports for a response it cannot parse.
C13_MFAOutcome ==
    pcLogin = "done" =>
        /\ mfaOutcome = "accepted" => loginHeld
        /\ mfaOutcome = "rejected" =>
              /\ ~loginHeld
              /\ loginErr # NoError
              /\ loginErr # UnparsedError

\* C14: when cancellation is signalled while Login waits in the MFA Prompter,
\* Login ends with the cancellation error and nothing else.
C14_CancelAbortsLogin ==
    (cancelledInPrompt /\ pcLogin \in { "done", "panic" }) =>
        /\ pcLogin = "done"
        /\ loginErr = AuthFailed("MFA prompt failed: canceled")
        /\ ~loginHeld

\* sign-in asked for MFA and there is no code to submit
NoCode ==
    /\ signinBody.mfa
    /\ signinBody.mfaContext # ""
    /\ \/ g.MFAPrompter = "nil"
       \/ Has(steps, "mfa_prompt") /\ mfaCode = ""

\* C15: when sign-in requires MFA and no Prompter is configured or the
\* Prompter returns an empty code, Login returns an error and no Session, and
\* no MFA code is submitted to the provider.
C15_NoCodeNoSubmit ==
    NoCode =>
        /\ ~Has(steps, "mfa_submit")
        /\ pcLogin # "panic"
        /\ pcLogin = "done" => (loginErr # NoError /\ ~loginHeld)

\* C16: when every protocol step succeeded and Save failed, Login returns the
\* persistence error together with the assembled Session; with no path
\* configured nothing is written and no persistence error is returned.
C16_SaveFailureKeepsSession ==
    /\ (pcLogin = "done" /\ saveOut \notin { "none", "ok" }) =>
          /\ loginErr = [step |-> "save", cause |-> saveOut]
          /\ loginHeld
          /\ loginSession.OAuth1Token # ""
          /\ loginSession.OAuth1Secret # ""
          /\ loginSession.OAuth2Token # ""
          /\ loginSession.ExpiresAt > ZeroTime
    /\ g.SessionPath = "" =>
          /\ saveOut = "none"
          /\ stored = NoFile
          /\ loginErr.step # "save"
          /\ ~Has(steps, "save")

C16_Witness ==
    /\ pcLogin = "done"
    /\ saveOut = "write_failed"
    /\ stored = Truncated
    /\ loginHeld
    /\ loginSession.OAuth2Token = "oauth2_access_token"

(***************************************************************************)
(* Properties of the shared client (SpecConc)                              *)
(***************************************************************************)
\* goroutines with a RefreshToken call in progress
InRefresh == { p \in Procs : cl[p].pc = "refresh" }

\* goroutines inside Session.Save
InSave == { p \in Procs : cl[p].pc \in { "marshal", "write" } }

\* C18: with two goroutines calling Get on one Client whose Session is
\* expired, at most one refresh attempt and at most one write of the session
\* file are in progress at any time, and the two calls do not both refresh
\* for the same expiry.
C18_RefreshExclusive ==
    /\ Cardinality(InRefresh) <= 1
    /\ Cardinality(InSave) <= 1
    /\ \A p, q \in Procs :
          (p # q /\ cl[p].exp # NoExpiry) => cl[p].exp # cl[q].exp

LoadedSaved ==
    /\ ret.op = "Load"
    /\ disk[ret.path].exists
    /\ disk[ret.path].valid

LoadedMissing == ret.op = "Load" /\ ~disk[ret.path].exists

\* C20 as stated: LoadSession(p) after a successful s.Save(p) returns a
\* Session equal to s in all four fields, for every Session s; LoadSession
\* of a path that does not exist returns an error and no Session.
C20_RoundTrip ==
    /\ LoadedSaved => (ret.err = "none" /\ ret.held /\ ret.session = memS)
    /\ LoadedMissing => (ret.err # "none" /\ ~ret.held)

ValidUTF8(str) == str # BadString

\* a Session that JSON can carry unchanged
Storable(s) ==
    /\ ValidUTF8(s.OAuth1Token)
    /\ ValidUTF8(s.OAuth1Secret)
    /\ ValidUTF8(s.OAuth2Token)
    /\ s.ExpiresAt.zsec = 0

\* C20 as amended: for every Session s whose tokens are valid UTF-8 and
\* whose expiry lies in a zone with a whole-minute offset, LoadSession(p)
\* after a successful s.Save(p) returns a Session with the same three strings
\* and the same expiry instant (the monotonic reading is not kept);
\* LoadSession of a path that does not exist returns an error and no Session.
C20_RoundTripInstant ==
    /\ (LoadedSaved /\ Storable(memS)) =>
          /\ ret.err = "none"
          /\ ret.held
          /\ ret.session.OAuth1Token = memS.OAuth1Token
          /\ ret.session.OAuth1Secret = memS.OAuth1Secret
          /\ ret.session.OAuth2Token = memS.OAuth2Token
          /\ ret.session.ExpiresAt.wall = memS.ExpiresAt.wall
    /\ LoadedMissing => (ret.err # "none" /\ ~ret.held)

C20_Witness ==
    /\ LoadedSaved
    /\ Storable(memS)
    /\ memS.OAuth1Secret = "tok"
    /\ memS.ExpiresAt.mono
    /\ memS.ExpiresAt.wall = 1
    /\ ret.session.ExpiresAt.wall = 1
    /\ ~disk["b.json"].exists

(***************************************************************************)
(* Properties of the CRC functions (SpecCrc)                               *)
(***************************************************************************)
\* C23: for every CRC state and every byte, updateCRC applied to that single
\* byte leaves the state that calcCRC, the nibble-wise reference update (low
\* nibbles first, then high nibbles, on the fixed 16-entry table), returns.
C23_UpdateCRCIsCalcCRC ==
    cc.pc = "done" => (cc.out = cc.ref /\ cc.out \in 0..65535)

C23_Witness ==
    cc.pc = "done" /\ cc.c = 65535 /\ cc.b = 165 /\ cc.out = cc.ref
        /\ cc.out # cc.c

\* Login has returned a Session and a nil error
LoginSucceeded == pcLogin = "done" /\ loginErr = NoError /\ loginHeld

\* C24: after a successful Login the Session's OAuth1 token and secret are
\* the values the provider returned at the access-token exchange, its OAuth2
\* token is the value the provider returned at the OAuth2 exchange, and the
\* Session is not expired when Login returns.
C24_TokensFromProvider ==
    LoginSucceeded =>
        /\ \A p \in ProviderAnswers :
              /\ loginSession.OAuth1Token = p.oauth_token
              /\ loginSession.OAuth1Secret = p.oauth_token_secret
              /\ loginSession.OAuth2Token = p.oauth2
        /\ ~IsExpired(loginSession, now)

\* C25: every Login terminates, with a Session or an error, once the caller
\* has signalled cancellation (or its deadline has passed), even when a
\* provider endpoint never responds.
C25_LoginTerminates == cancelled ~> (pcLogin \in { "done", "panic" })

(***************************************************************************)
(* Properties of the buffered encoder (SpecEnc)                            *)
(***************************************************************************)
\* the data-size field of a container writeHeader laid out
DataSizeField(out) == Uint32(SubSeq(out, 7, 10))

\* C30: Encode on an encoder to which no activity data was added returns a
\* container whose header data-size field is 0, and Encode is idempotent:
\* calling it again on the same encoder returns the same bytes.
C30_EncodeIdempotent ==
    /\ \A i \in DOMAIN encLog :
          (encLog[i].op = "Encode" /\ enc.activityDefined = FALSE)
              => DataSizeField(encLog[i].out) = 0
    /\ \A i, j \in DOMAIN encLog :
          (encLog[i].op = "Encode" /\ encLog[j].op = "Encode")
              => encLog[i].out = encLog[j].out

(***************************************************************************)
(* Properties of the AuthClient (SpecAuth)                                 *)
(***************************************************************************)
\* the login request was answered with 401
Challenged == ac.op = "Authenticate" /\ ac.first.ok /\ ac.first.status = 401

\* the answer Authenticate ended on is a 200 carrying both token cookies
FinalOk ==
    /\ ac.last.ok
    /\ ac.last.status = 200
    /\ ac.last.access_token # ""
    /\ ac.last.refresh_token # ""

\* the part of C26 on what Authenticate returns
AuthenticateReturn ==
    ac.op = "Authenticate" =>
        /\ ac.held <=> (ac.err = "none")
        /\ ac.held => FinalOk
        /\ ~ac.held => ac.token = NilToken

\* C26 as stated: when the login response is 401 and mfaToken is empty,
\* Authenticate fails with "MFA required but no token provided" and sends no
\* MFA verification request; when mfaToken is non-empty it sends exactly one;
\* a Token is returned only when the final response is 200 with both cookies,
\* and in every other case the result is an error with a nil Token.
C26_AuthenticateMFA ==
    /\ (Challenged /\ ac.mfaToken = "") =>
          /\ ac.err = "MFA required but no token provided"
          /\ Count(ac.requests, "mfa") = 0
    /\ (Challenged /\ ac.mfaToken # "") => Count(ac.requests, "mfa") = 1
    /\ AuthenticateReturn

\* C26 as amended: the two MFA cases hold when the body of the 401 decodes
\* as the JSON MFA response; when it does not decode, Authenticate fails with
\* "failed to parse MFA response" and sends no MFA verification request,
\* whatever mfaToken is.  The part on what is returned holds as stated.
C26_AuthenticateMFADecoded ==
    /\ (Challenged /\ ac.first.json /\ ac.mfaToken = "") =>
          /\ ac.err = "MFA required but no token provided"
          /\ Count(ac.requests, "mfa") = 0
    /\ (Challenged /\ ac.first.json /\ ac.mfaToken # "") =>
          Count(ac.requests, "mfa") = 1
    /\ (Challenged /\ ~ac.first.json) =>
          /\ ac.err = "failed to parse MFA response"
          /\ Count(ac.requests, "mfa") = 0
    /\ AuthenticateReturn

C26_Witness ==
    /\ Challenged
    /\ ac.first.json
    /\ ac.mfaToken = "123456"
    /\ ac.requests = << "login", "mfa" >>
    /\ ac.held
    /\ ac.token.AccessToken = "access-token"
    /\ ac.token.RefreshToken = "refresh-token"

\* C27: RefreshToken returns a new Token if and only if the token endpoint
\* answers 200 with a body whose access_token and refresh_token are both
\* non-empty; in every other case it returns an error and a nil Token; and in
\* no case does it modify the Token passed in.
C27_RefreshTokenResult ==
    ac.op = "RefreshToken" =>
        /\ ac.held <=> (/\ ac.first.ok
                        /\ ac.first.status = 200
                        /\ ac.first.json
                        /\ ac.first.access_token # ""
                        /\ ac.first.refresh_token # "")
        /\ ac.held => /\ ac.err = "none"
                      /\ ac.token.AccessToken = ac.first.access_token
                      /\ ac.token.RefreshToken = ac.first.refresh_token
        /\ ~ac.held => (ac.err # "none" /\ ac.token = NilToken)
        /\ ac.tokenAfter = ac.tokenIn

C27_Witness ==
    /\ ac.op = "RefreshToken"
    /\ ac.held
    /\ ac.token.AccessToken = "access-token"
    /\ ac.tokenIn.AccessToken = "old-access-token"
    /\ ac.tokenAfter = ac.tokenIn

====
